---------------------------- MODULE Spec2Model ----------------------------
(***************************************************************************)
(* Verification model of the detourist route-generation backend.           *)
(*                                                                         *)
(*   backend/orchestrator.py       RouteOrchestrator      ("parallel")     *)
(*   backend/orchestrator_sync.py  RouteOrchestratorSync  ("sync")         *)
(*   backend/routing/route_builder.py, backend/scoring/route_scorer.py     *)
(*                                                                         *)
(* Several state machines share this module:                               *)
(*   SpecCand  candidate generation (_make_candidates) as a function of    *)
(*             the waypoint list and the sizing knobs;                     *)
(*   Spec      one generate_routes request after another against one       *)
(*             Redis store, with the build and scoring worker pools;       *)
(*   SpecBuild, SpecSearch, SpecScore, SpecZone                            *)
(*             single calls of RouteBuilder, WaypointSearcher, RouteScorer *)
(*             and Geocoder methods on bounded inputs;                     *)
(*   SpecKey   the routes cache key as two processes compute it;           *)
(*   SpecMode  the travel mode of the zone and of the legs of a request.   *)
(* Scores are fixed-point numbers in thousandths of a point (100000 is a   *)
(* score of 100.0).                                                        *)
(***************************************************************************)
EXTENDS Integers, Sequences, FiniteSets, TLC

VARIABLES
    \* ---- candidate generation machine (SpecCand) ----
    cgPc,        \* "input" | "done"
    cgOrch,      \* which orchestrator's _make_candidates runs
    cgCfg,       \* the sizing knobs read in __init__
    cgWps,       \* the waypoint list handed to _make_candidates
    cgOut,       \* the candidate list it returned
    \* ---- single method calls (SpecBuild ... SpecZone, SpecKey, SpecMode) ----
    fnPc,        \* "idle" | "call" | "done"
    fnOp,        \* the method called
    fnIn,        \* its arguments and the provider answers it will receive
    fnOut,       \* what it returned (or the exception it raised)
    fnSelf,      \* the fields of the object it was called on, where it has any
    \* ---- request pipeline (Spec) ----
    cfg,            \* knobs the orchestrator read at construction
    store,          \* the Redis store: one entry per cache namespace
    reqNo,          \* number of the request being served
    orch,           \* the orchestrator serving this request
    explicitCoords, \* the request carries origin and destination lat/lon
    maxResults,     \* request.max_results as read when ranking (0 before)
    pc,             \* stage of generate_routes the request is at
    err,            \* what made the request raise ("none" while it has not)
    ep,             \* where the ExtractedParameters came from
    zone,           \* the search zone's intersection ring: "empty" | "ring"
    waypoints,      \* waypoints after de-duplication and the near filter
    candidates,     \* _make_candidates(waypoints)
    bStatus,        \* build_route task per candidate
    bStarted,       \* candidates in the order their build_route call began
    built,          \* `built`: routes in the order their results arrived
    fallback,       \* outcome of build_direct_route: "none" | "ok" | "failed"
    routes,         \* `routes`: what the build stage hands to scoring
    sStatus,        \* _score_one task per route (parallel orchestrator)
    sStarted,       \* routes in the order their _score_one call began
    scored,         \* `scored`: RouteScores in the order they arrived
    response        \* the ranked routes of the RouteResponse

cgVars == <<cgPc, cgOrch, cgCfg, cgWps, cgOut>>

fnVars == <<fnPc, fnOp, fnIn, fnOut, fnSelf>>

pipeVars == <<cfg, store, reqNo, orch, explicitCoords, maxResults, pc, err, ep, zone,
              waypoints, candidates, bStatus, bStarted, built, fallback,
              routes, sStatus, sStarted, scored, response>>

vars == <<cgVars, fnVars, pipeVars>>

-----------------------------------------------------------------------------
(* Bounds of the model *)

\* longest waypoint list handed to _make_candidates in SpecCand
MaxCandWps == 4
\* largest value tried for each of the single / pair / triple counts
MaxKnob == 3
\* largest worker-pool size tried for RB_MAX_WORKERS and SCORER_MAX_WORKERS
MaxWorkers == 2
\* requests served one after another against the same store
MaxRequests == 2
\* longest waypoint list handed to a RouteBuilder method in SpecBuild
MaxBuildWps == 2
\* number of distinct legs the directions provider answers differently
MaxTape == 3
\* most alternatives the directions provider returns for one request
MaxNative == 2
\* most waypoints the Overpass queries of one search return together
MaxFound == 3
\* most routes handed to one score_routes call in SpecScore
MaxScoreRoutes == 2
\* longest duration (s) handed to _calculate_efficiency_score on its own
MaxDuration == 6
\* most waypoints of a route handed to _calculate_preference_match_score
MaxPrefWps == 3
\* longest shortest-travel-time (minutes) the directions provider reports
MaxBaseMinutes == 65
\* largest max_additional_time (minutes) handed to create_search_zone
MaxExtraMinutes == 3
\* most create_isochrone calls made on one Geocoder in SpecZone
MaxIsoCalls == 2

\* relevance scores a waypoint may carry (0..10 scale of the searcher)
Relevances == {4, 7}

Orchestrators == {"parallel", "sync"}

-----------------------------------------------------------------------------
(* Small helpers *)

Min(a, b) == IF a <= b THEN a ELSE b
Max(a, b) == IF a >= b THEN a ELSE b

\* orderings of a list
Orderings(xs) ==
    {[i \in 1..Len(xs) |-> xs[f[i]]] :
        f \in {g \in [1..Len(xs) -> 1..Len(xs)] :
                  \A a, b \in 1..Len(xs) : g[a] = g[b] => a = b}}

\* Python s[:k]: the first k elements, a negative k counts from the end
PySliceTo(s, k) ==
    IF k >= 0 THEN SubSeq(s, 1, Min(k, Len(s)))
              ELSE SubSeq(s, 1, Max(0, Len(s) + k))

\* round(x) for x given in tenths of the last digit kept: Python rounds
\* halves to even
RoundHalfEven10(t) ==
    LET q == t \div 10
        r == t % 10
    IN  IF r < 5 THEN q
        ELSE IF r > 5 THEN q + 1
        ELSE IF q % 2 = 0 THEN q ELSE q + 1

\* sorted(ws, key=relevance_score, reverse=True): Python's sort is stable, so
\* waypoints of equal relevance keep their relative order
RECURSIVE SortByRelevanceDesc(_)
SortByRelevanceDesc(ws) ==
    IF ws = <<>> THEN <<>>
    ELSE LET front == SortByRelevanceDesc(SubSeq(ws, 1, Len(ws) - 1))
             w     == ws[Len(ws)]
             k     == Cardinality({i \in 1..Len(front) : front[i].rel >= w.rel})
         IN  SubSeq(front, 1, k) \o <<w>> \o SubSeq(front, k + 1, Len(front))

-----------------------------------------------------------------------------
(* Candidate generation: RouteOrchestrator._make_candidates and            *)
(* RouteOrchestratorSync._make_candidates.  A candidate is the sequence of *)
(* waypoints of one build attempt; index tuples below index `ordered`.     *)

\* for i in range(L): for j in range(i+1, n): (i, j), in loop order (1-based)
RECURSIVE PairIdx(_, _, _)
PairIdx(i, L, n) ==
    IF i > L THEN <<>>
    ELSE [d \in 1..Max(0, n - i) |-> <<i, i + d>>] \o PairIdx(i + 1, L, n)

\* for i in range(L): for j in range(i+1, L): for k in range(j+1, L): (i, j, k)
RECURSIVE TripleIdxJ(_, _, _)
TripleIdxJ(i, j, L) ==
    IF j > L THEN <<>>
    ELSE [d \in 1..Max(0, L - j) |-> <<i, j, j + d>>] \o TripleIdxJ(i, j + 1, L)

RECURSIVE TripleIdx(_, _)
TripleIdx(i, L) ==
    IF i > L THEN <<>>
    ELSE TripleIdxJ(i, i + 1, L) \o TripleIdx(i + 1, L)

\* itertools.combinations(range(n), k) restricted to tuples starting at >= lo,
\* in the lexicographic order itertools emits
RECURSIVE Combinations(_, _, _)
Combinations(lo, n, k) ==
    IF k = 0 THEN << <<>> >>
    ELSE IF lo > n THEN <<>>
    ELSE [c \in 1..Len(Combinations(lo + 1, n, k - 1)) |->
              <<lo>> \o Combinations(lo + 1, n, k - 1)[c]]
         \o Combinations(lo + 1, n, k)

\* for k in range(1, K+1): for combo in combinations(ordered, k)
RECURSIVE CombosUpTo(_, _, _)
CombosUpTo(k, K, n) ==
    IF k > K THEN <<>> ELSE Combinations(1, n, k) \o CombosUpTo(k + 1, K, n)

\* index tuples -> candidates over `ordered`
Pick(ordered, idxs) ==
    [c \in 1..Len(idxs) |-> [p \in 1..Len(idxs[c]) |-> ordered[idxs[c][p]]]]

\* the loops `if cnt >= limit: break` emit the first `limit` tuples (none when
\* the limit is zero or negative)
UpTo(s, limit) == SubSeq(s, 1, Min(Max(limit, 0), Len(s)))

\* orchestrator.py 236-238: sort by relevance, keep the top-K window if K > 0
OrderedParallel(ws, knobs) ==
    LET ordered == SortByRelevanceDesc(ws)
    IN  IF knobs.wp_top_k > 0 THEN PySliceTo(ordered, knobs.wp_top_k) ELSE ordered

\* orchestrator_sync.py 184: the slice is unconditional
OrderedSync(ws, knobs) == PySliceTo(SortByRelevanceDesc(ws), knobs.wp_top_k)

\* orchestrator.py 241
AnyLegacy(knobs) ==
    \/ knobs.route_max_single > 0
    \/ knobs.route_max_pairs > 0
    \/ knobs.route_max_triples > 0

\* orchestrator.py 244-267: singles, pairs, triples
LegacyCandidatesParallel(ordered, knobs) ==
    LET L == Min(Len(ordered), Max(0, knobs.route_max_single))
    IN  [i \in 1..L |-> <<ordered[i]>>]
        \o Pick(ordered, UpTo(PairIdx(1, L, Len(ordered)), knobs.route_max_pairs))
        \o Pick(ordered, UpTo(TripleIdx(1, L), knobs.route_max_triples))

\* orchestrator.py 269-273: every combination of 1..K waypoints
GenericCandidates(ordered, knobs) ==
    LET K == Min(Max(0, knobs.max_wp_per_route), Len(ordered))
    IN  Pick(ordered, CombosUpTo(1, K, Len(ordered)))

\* a ceiling that keeps the tail of the list instead of its head
TruncateDropHead(out, knobs) ==
    IF knobs.rb_max_candidates > 0 /\ Len(out) > knobs.rb_max_candidates
    THEN SubSeq(out, Len(out) - knobs.rb_max_candidates + 1, Len(out))
    ELSE out

\* orchestrator.py 275-276: the hard ceiling, applied only when it is > 0
TruncateCandidates(out, knobs) ==
    IF knobs.rb_max_candidates > 0 THEN PySliceTo(out, knobs.rb_max_candidates) ELSE out

\* orchestrator.py 228-278
MakeCandidatesParallel(ws, knobs) ==
    LET ordered == OrderedParallel(ws, knobs)
        out     == << <<>> >> \o
                   (IF AnyLegacy(knobs) THEN LegacyCandidatesParallel(ordered, knobs)
                                      ELSE GenericCandidates(ordered, knobs))
    IN  TruncateCandidates(out, knobs)

\* orchestrator_sync.py 183-211: no generic mode and no ceiling
MakeCandidatesSync(ws, knobs) ==
    LET ordered == OrderedSync(ws, knobs)
        L       == Min(Len(ordered), knobs.route_max_single)
        singles == PySliceTo(ordered, knobs.route_max_single)
    IN  << <<>> >>
        \o [i \in 1..Len(singles) |-> <<singles[i]>>]
        \o Pick(ordered, UpTo(PairIdx(1, L, Len(ordered)), knobs.route_max_pairs))
        \o (IF knobs.route_max_triples > 0
            THEN Pick(ordered, UpTo(TripleIdx(1, L), knobs.route_max_triples))
            ELSE <<>>)

MakeCandidates(o, ws, knobs) ==
    IF o = "parallel" THEN MakeCandidatesParallel(ws, knobs)
                      ELSE MakeCandidatesSync(ws, knobs)

-----------------------------------------------------------------------------
(* Scoring: RouteScorer (backend/scoring/route_scorer.py).  A route is     *)
(* [wps, dur]: its waypoints in visiting order and total_duration_seconds;  *)
(* `raw` is the mean CLIP similarity of its images in thousandths (0 when  *)
(* no image was fetched).                                                  *)

\* ScoringWeights defaults, in tenths
ClipWeight == 4
DurationWeight == 3
WaypointRelevanceWeight == 3
\* waypoint_bonus_rate default 0.1, in hundredths
WaypointBonusRate == 10

\* a score of 100.0
Hundred == 100000
\* the -1.0 returned for a route without waypoints
NotApplicable == -1000

\* an efficiency score left as the cubic penalty gives it
Unclamped(x) == x

\* max(0.0, min(100.0, efficiency_score))
Clamp(x) == Max(0, Min(Hundred, x))

RECURSIVE SumRel(_)
SumRel(ws) == IF ws = <<>> THEN 0 ELSE Head(ws).rel + SumRel(Tail(ws))

RECURSIVE MinDuration(_)
MinDuration(rs) ==
    IF Len(rs) = 1 THEN rs[1].dur ELSE Min(rs[1].dur, MinDuration(Tail(rs)))

RECURSIVE MaxOf(_)
MaxOf(xs) == IF xs = <<>> THEN 0 ELSE Max(Head(xs), MaxOf(Tail(xs)))

\* _calculate_efficiency_score: 100 - 10 * ((d - m)/m + 1)^3 clamped to
\* [0,100], and 100 outright when m <= 0; (d - m)/m + 1 is d/m
EfficiencyScore(d, m) ==
    IF m <= 0 THEN Hundred
    ELSE Clamp(Hundred - (10000 * (d * d * d)) \div (m * m * m))

\* a preference score that is the plain mean of the relevance scores
PreferenceWithoutBonus(r) ==
    IF r.wps = <<>> THEN NotApplicable
    ELSE Min(Hundred, (SumRel(r.wps) * 1000) \div Len(r.wps))

\* _calculate_preference_match_score: -1 without waypoints, else
\* min(100, mean(relevance) * (1 + bonus_rate * (n - 1)))
PreferenceMatchScore(r) ==
    IF r.wps = <<>> THEN NotApplicable
    ELSE LET n == Len(r.wps)
         IN  Min(Hundred,
                 (SumRel(r.wps) * 1000 * (100 + WaypointBonusRate * (n - 1)))
                     \div (n * 100))

\* a combination that counts a missing preference score as 0 and keeps the
\* three weights as they are
CombineWithoutRedistribution(clip, eff, pref) ==
    (ClipWeight * clip + DurationWeight * eff
         + WaypointRelevanceWeight * Max(0, pref)) \div 10

\* _combine_scores: the preference weight is dropped and the other two are
\* renormalised when the preference score is negative
CombineScores(clip, eff, pref) ==
    IF pref < 0
    THEN IF ClipWeight + DurationWeight > 0
         THEN (ClipWeight * clip + DurationWeight * eff)
                  \div (ClipWeight + DurationWeight)
         ELSE (clip + eff) \div 2
    ELSE (ClipWeight * clip + DurationWeight * eff
              + WaypointRelevanceWeight * pref) \div 10

\* a scorer that returns the scores in the order of the routes it was given
KeepArrivalOrder(ss) == ss

\* scored_routes.sort(key=overall_score, reverse=True): stable
RECURSIVE SortByOverallDesc(_)
SortByOverallDesc(ss) ==
    IF ss = <<>> THEN <<>>
    ELSE LET front == SortByOverallDesc(SubSeq(ss, 1, Len(ss) - 1))
             x     == ss[Len(ss)]
             k     == Cardinality({i \in 1..Len(front) :
                                       front[i].overall >= x.overall})
         IN  SubSeq(front, 1, k) \o <<x>> \o SubSeq(front, k + 1, Len(front))

\* the second pass of score_routes for route i of the batch
RouteScoreOf(rs, raws, i) ==
    LET maxClip == MaxOf(raws)
        clip    == IF maxClip > 0 THEN (raws[i] * Hundred) \div maxClip ELSE 0
        eff     == EfficiencyScore(rs[i].dur, MinDuration(rs))
        pref    == PreferenceMatchScore(rs[i])
    IN  [route   |-> rs[i],
         raw     |-> raws[i],
         clip    |-> clip,
         eff     |-> eff,
         pref    |-> pref,
         overall |-> CombineScores(clip, eff, pref)]

\* score_routes(routes, prompt): one RouteScore per route, normalised over
\* the batch it was given, sorted by overall score
ScoreRoutes(rs, raws) ==
    IF rs = <<>> THEN <<>>
    ELSE SortByOverallDesc([i \in 1..Len(rs) |-> RouteScoreOf(rs, raws, i)])

\* _score_one(r): score_routes([r], ...)[0]
ScoreOne(r, raw) == ScoreRoutes(<<r>>, <<raw>>)[1]

-----------------------------------------------------------------------------
(* The request pipeline: RouteOrchestrator.generate_routes and             *)
(* RouteOrchestratorSync.generate_routes                                   *)

\* defaults of the sizing knobs (orchestrator.py __init__)
DefaultWpTopK == 12
DefaultRouteMaxSingle == 6
DefaultRouteMaxPairs == 6
DefaultRouteMaxTriples == 0
DefaultMaxWpPerRoute == 3
DefaultRbMaxCandidates == 12
\* RouteRequest.max_results default
DefaultMaxResults == 5
\* max_results values requests carry
MaxResultsTried == {1, DefaultMaxResults}

\* the orchestrator configurations tried: the default sizing knobs with
\* RB_MAX_CANDIDATES=3, and the two pools sized independently from
\* 1..MaxWorkers
PipelineConfigs ==
    {[wp_top_k           |-> DefaultWpTopK,
      route_max_single   |-> DefaultRouteMaxSingle,
      route_max_pairs    |-> DefaultRouteMaxPairs,
      route_max_triples  |-> DefaultRouteMaxTriples,
      max_wp_per_route   |-> DefaultMaxWpPerRoute,
      rb_max_candidates  |-> 3,
      rb_max_workers     |-> w[1],
      scorer_max_workers |-> w[2]] :
        w \in (1..MaxWorkers) \X (1..MaxWorkers)}

\* what the waypoint provider can find in a non-empty zone: two waypoints of
\* equal relevance and a third within WAYPOINT_NEAR_THRESHOLD_M of an endpoint
WaypointPool ==
    << [id |-> 1, lat7 |-> 0, rel |-> 7, near |-> FALSE],
       [id |-> 2, lat7 |-> 0, rel |-> 7, near |-> FALSE],
       [id |-> 3, lat7 |-> 0, rel |-> 4, near |-> TRUE] >>

RECURSIVE Restrict(_, _)
Restrict(ws, ids) ==
    IF ws = <<>> THEN <<>>
    ELSE (IF Head(ws).id \in ids THEN <<Head(ws)>> ELSE <<>>)
         \o Restrict(Tail(ws), ids)

\* search_waypoints returns a de-duplicated list sorted by relevance
ProviderResults ==
    {Restrict(WaypointPool, ids) : ids \in SUBSET {1, 2, 3}}

\* the directions provider answers deterministically: the direct route takes
\* 10 s and every waypoint visited adds 10 s (total_duration_seconds)
DurationOf(c) == 10 * (1 + Len(c))

\* the imagery and embedding providers answer deterministically: no image is
\* found along the direct route, and routes through waypoints get a mean
\* similarity of 0.6 (one waypoint) or 0.8 (more), in thousandths
SimilarityOf(r) ==
    IF r.wps = <<>> THEN 0 ELSE IF Len(r.wps) = 1 THEN 600 ELSE 800

\* orchestrator.py 387-396 / orchestrator_sync.py 306-314: walk the list
\* sorted by relevance, keep the first waypoint of every _wp_key, stop once
\* top-K are kept (the sync loop stops at len >= K even when K is 0)
\* _wp_key(w) and the searcher's de-dupe key: the name and the coordinates
\* rounded to 6 decimals.  A waypoint is [id, lat7, rel, near]: `id` stands
\* for its name and `lat7` for its position in units of 1e-7 degrees.
WpKey(w) == <<w.id, RoundHalfEven10(w.lat7)>>

RECURSIVE DedupLoop(_, _, _, _)
DedupLoop(rest, dedup, o, knobs) ==
    IF rest = <<>> THEN dedup
    ELSE LET w    == Head(rest)
             seen == {WpKey(dedup[i]) : i \in 1..Len(dedup)}
             d2   == IF WpKey(w) \in seen THEN dedup ELSE Append(dedup, w)
             stop == IF o = "parallel"
                     THEN knobs.wp_top_k > 0 /\ Len(d2) >= knobs.wp_top_k
                     ELSE Len(d2) >= knobs.wp_top_k
         IN  IF stop THEN d2 ELSE DedupLoop(Tail(rest), d2, o, knobs)

DedupTopK(found, o, knobs) ==
    DedupLoop(SortByRelevanceDesc(found), <<>>, o, knobs)

\* orchestrator.py 410-415: drop waypoints within the near threshold of the
\* origin or the destination (the sync orchestrator has no such filter)
NearFilter(ws, o) ==
    IF o = "parallel"
    THEN Restrict(ws, {ws[i].id : i \in {j \in 1..Len(ws) : ~ws[j].near}})
    ELSE ws

EmptyStore ==
    [llm    |-> "none",
     zone   |-> "none",
     wps    |-> [present |-> FALSE, val |-> <<>>],
     routes |-> [present |-> FALSE, key |-> <<>>, val |-> <<>>]]

\* the per-request locals at the top of generate_routes
RequestStarts ==
    /\ pc = "llm_get"
    /\ err = "none"
    /\ ep = "none"
    /\ zone = "none"
    /\ waypoints = <<>>
    /\ candidates = <<>>
    /\ bStatus = <<>>
    /\ bStarted = <<>>
    /\ built = <<>>
    /\ fallback = "none"
    /\ routes = <<>>
    /\ sStatus = <<>>
    /\ sStarted = <<>>
    /\ scored = <<>>
    /\ response = <<>>

CandIdle ==
    /\ cgPc = "idle"
    /\ cgOrch = "parallel"
    /\ cgCfg = <<>>
    /\ cgWps = <<>>
    /\ cgOut = <<>>

\* no single method call is being looked at
FnIdle ==
    /\ fnPc = "idle"
    /\ fnOp = "none"
    /\ fnIn = <<>>
    /\ fnOut = <<>>
    /\ fnSelf = <<>>

Init ==
    /\ CandIdle
    /\ FnIdle
    /\ cfg \in PipelineConfigs
    /\ store = EmptyStore
    /\ reqNo = 1
    /\ orch \in Orchestrators
    /\ explicitCoords \in BOOLEAN
    /\ maxResults = 0
    /\ RequestStarts

\* the exception leaves generate_routes (`except Exception: ... raise`)
Raise(cause, unchanged) ==
    /\ pc' = "failed"
    /\ err' = cause
    /\ UNCHANGED unchanged

configVars == <<cgVars, fnVars, cfg, reqNo, orch, explicitCoords, maxResults>>
buildVars == <<bStatus, bStarted, built, fallback, routes>>
scoreVars == <<sStatus, sStarted, scored, response>>

\* ---- stage 1: LLM extraction (cache) ----
\* cache.get_json("llm_extract_v1", ...): Cache.get_json has no handler
\* around client.get, so an unreachable store raises out of the request.  A
\* hit is unpacked with ExtractedParameters(**cached_llm); the entry the sync
\* orchestrator writes has no "preferences" key and the constructor raises
\* TypeError on it.
LlmCacheGet ==
    /\ pc = "llm_get"
    /\ \/ Raise("cache", <<configVars, store, ep, zone, waypoints, candidates,
                          buildVars, scoreVars>>)
       \/ /\ store.llm = "none"
          /\ pc' = "extract"
          /\ UNCHANGED <<configVars, store, err, ep, zone, waypoints,
                         candidates, buildVars, scoreVars>>
       \/ /\ store.llm = "parallel"
          /\ ep' = "cached"
          /\ pc' = "geocode"
          /\ UNCHANGED <<configVars, store, err, zone, waypoints, candidates,
                         buildVars, scoreVars>>
       \/ /\ store.llm = "sync"
          /\ Raise("cached_llm_missing_field",
                   <<configVars, store, ep, zone, waypoints, candidates,
                     buildVars, scoreVars>>)

\* extractor.extract_parameters(prompt) / f_extract.result(), then
\* cache.set_json("llm_extract_v1", ...).  extract_parameters re-raises every
\* failure and generate_routes has no handler for it, whether or not the
\* request carries coordinates.
Extract ==
    /\ pc = "extract"
    /\ \/ Raise("extraction", <<configVars, store, ep, zone, waypoints,
                               candidates, buildVars, scoreVars>>)
       \/ /\ ep' = "extracted"
          /\ \/ /\ pc' = "failed"
                /\ err' = "cache"
                /\ UNCHANGED store
             \/ /\ store' = [store EXCEPT !.llm = orch]
                /\ pc' = "geocode"
                /\ UNCHANGED err
          /\ UNCHANGED <<configVars, zone, waypoints, candidates, buildVars,
                         scoreVars>>

\* ---- stage 2: endpoints ----
\* explicit lat/lon are used as they are; otherwise _cached_geocode(text):
\* cache get, geocode_address, cache set
ResolveEndpoints ==
    /\ pc = "geocode"
    /\ \/ /\ explicitCoords
          /\ pc' = "zone"
          /\ UNCHANGED err
       \/ /\ ~explicitCoords
          /\ \/ pc' = "zone" /\ UNCHANGED err
             \/ pc' = "failed" /\ err' \in {"cache", "geocode"}
    /\ UNCHANGED <<configVars, store, ep, zone, waypoints, candidates,
                   buildVars, scoreVars>>

\* ---- stage 3: search zone (cache) ----
SearchZoneStage ==
    /\ pc = "zone"
    /\ \/ Raise("cache", <<configVars, store, ep, zone, waypoints, candidates,
                          buildVars, scoreVars>>)
       \/ /\ store.zone # "none"
          /\ zone' = store.zone
          /\ pc' = "waypoints"
          /\ UNCHANGED <<store, err>>
       \/ /\ store.zone = "none"
          /\ \/ /\ pc' = "failed"
                /\ err' = "search_zone"
                /\ UNCHANGED <<zone, store>>
             \/ \E z \in {"empty", "ring"} :
                    /\ zone' = z
                    /\ \/ /\ pc' = "failed"
                          /\ err' = "cache"
                          /\ UNCHANGED store
                       \/ /\ store' = [store EXCEPT !.zone = z]
                          /\ pc' = "waypoints"
                          /\ UNCHANGED err
    /\ UNCHANGED <<configVars, ep, waypoints, candidates, buildVars, scoreVars>>

\* ---- stage 4: waypoints (cache), de-duplication, near filter ----
\* `if cached_wps:` an empty cached list counts as a miss.  A zone with an
\* empty ring has search_waypoints return [] without a provider call; a
\* provider exception is caught and also gives [].
FetchWaypoints ==
    /\ pc = "waypoints"
    /\ \/ Raise("cache", <<configVars, store, ep, zone, waypoints, candidates,
                          buildVars, scoreVars>>)
       \/ /\ store.wps.present /\ store.wps.val # <<>>
          /\ waypoints' = NearFilter(store.wps.val, orch)
          /\ pc' = "prepare"
          /\ UNCHANGED <<store, err>>
       \/ /\ ~(store.wps.present /\ store.wps.val # <<>>)
          /\ \E found \in (IF zone = "empty" THEN {<<>>} ELSE ProviderResults) :
               LET dedup == DedupTopK(found, orch, cfg)
               IN  /\ waypoints' = NearFilter(dedup, orch)
                   /\ \/ /\ pc' = "failed"
                         /\ err' = "cache"
                         /\ UNCHANGED store
                      \/ /\ store' = [store EXCEPT
                                        !.wps = [present |-> TRUE, val |-> dedup]]
                         /\ pc' = "prepare"
                         /\ UNCHANGED err
    /\ UNCHANGED <<configVars, ep, zone, candidates, buildVars, scoreVars>>

\* ---- stage 5: candidates, and the routes cache of the parallel orchestrator ----
RoutesKey(ws, cs) == [w |-> ws, c |-> cs]

Pending(n) == [i \in 1..n |-> "pending"]

PrepareBuild ==
    /\ pc = "prepare"
    /\ LET made  == MakeCandidates(orch, waypoints, cfg)
           cands == IF made = <<>> THEN << <<>> >> ELSE made
       IN  /\ candidates' = cands
           /\ \/ /\ orch = "sync"
                 /\ pc' = "build"
                 /\ bStatus' = Pending(Len(cands))
                 /\ UNCHANGED <<err, routes, sStatus>>
              \/ /\ orch = "parallel"
                 /\ \/ /\ pc' = "failed"
                       /\ err' = "cache"
                       /\ UNCHANGED <<bStatus, routes, sStatus>>
                    \/ /\ store.routes.present
                       /\ store.routes.key = RoutesKey(waypoints, cands)
                       /\ store.routes.val # <<>>
                       /\ routes' = store.routes.val
                       /\ sStatus' = Pending(Len(store.routes.val))
                       /\ pc' = "score"
                       /\ UNCHANGED <<err, bStatus>>
                    \/ /\ ~(/\ store.routes.present
                            /\ store.routes.key = RoutesKey(waypoints, cands)
                            /\ store.routes.val # <<>>)
                       /\ pc' = "build"
                       /\ bStatus' = Pending(Len(cands))
                       /\ UNCHANGED <<err, routes, sStatus>>
    /\ UNCHANGED <<configVars, store, ep, zone, waypoints, bStarted, built,
                   fallback, sStarted, scored, response>>

\* ---- stage 5: the build batch ----
\* orchestrator.py 443: a plain for-loop when there is one candidate or the
\* pool size is <= 1 (always, in the sync orchestrator); otherwise
\* ThreadPoolExecutor(max_workers=min(rb_max_workers, len(candidates)))
BuildSequential(o, knobs, n) == o = "sync" \/ n = 1 \/ knobs.rb_max_workers <= 1

\* a pool with one worker per submitted task
UnboundedBuildSlots(o, knobs, n) == n

BuildSlots(o, knobs, n) ==
    IF BuildSequential(o, knobs, n) THEN 1 ELSE Min(knobs.rb_max_workers, n)

\* orchestrator.py 494, 502: the same choice for the scoring batch
ScoreSequential(knobs, n) == knobs.scorer_max_workers <= 1 \/ n = 1

ScoreSlots(knobs, n) ==
    IF ScoreSequential(knobs, n) THEN 1 ELSE Min(knobs.scorer_max_workers, n)

Running(status) == {i \in DOMAIN status : status[i] = "running"}
Unfinished(status) == {i \in DOMAIN status : status[i] \in {"pending", "running"}}

\* a batch that drops its waiting tasks when one task raises
CancelSiblingsOnFailure(status, i) ==
    [j \in DOMAIN status |->
        IF j = i THEN "failed"
        ELSE IF status[j] = "pending" THEN "cancelled" ELSE status[j]]

\* a task that raised: `except Exception: logger.warning(...)`, the loop goes
\* on with the other tasks
AfterTaskFailure(status, i) == [status EXCEPT ![i] = "failed"]

\* a build_route call begins: the for-loop and the pool's FIFO work queue
\* both take the candidates in list order
StartBuild(i) ==
    /\ pc = "build"
    /\ bStatus[i] = "pending"
    /\ \A j \in 1..(i - 1) : bStatus[j] # "pending"
    /\ Cardinality(Running(bStatus)) < BuildSlots(orch, cfg, Len(candidates))
    /\ bStatus' = [bStatus EXCEPT ![i] = "running"]
    /\ bStarted' = Append(bStarted, i)
    /\ UNCHANGED <<configVars, store, pc, err, ep, zone, waypoints, candidates,
                   built, fallback, routes, scoreVars>>

\* a build_route call returns a Route (appended to `built` as its result is
\* collected: list order in the loop, completion order under as_completed) or
\* raises
FinishBuild(i) ==
    /\ pc = "build"
    /\ bStatus[i] = "running"
    /\ \/ /\ built' = Append(built, [wps |-> candidates[i],
                                      dur |-> DurationOf(candidates[i])])
          /\ bStatus' = [bStatus EXCEPT ![i] = "ok"]
       \/ /\ bStatus' = AfterTaskFailure(bStatus, i)
          /\ UNCHANGED built
    /\ UNCHANGED <<configVars, store, pc, err, ep, zone, waypoints, candidates,
                   bStarted, fallback, routes, scoreVars>>

\* orchestrator.py 467-475 / orchestrator_sync.py 339-346: with nothing
\* built, try build_direct_route, which returns None when its directions
\* call fails; `routes = built`; the parallel orchestrator stores the list
\* under routes_v3
CloseBuild(rs, fb) ==
    /\ routes' = rs
    /\ fallback' = fb
    /\ \/ /\ orch = "parallel"
          /\ \/ /\ pc' = "failed"
                /\ err' = "cache"
                /\ UNCHANGED <<store, sStatus>>
             \/ /\ store' = [store EXCEPT !.routes =
                               [present |-> TRUE,
                                key     |-> RoutesKey(waypoints, candidates),
                                val     |-> rs]]
                /\ pc' = "score"
                /\ sStatus' = Pending(Len(rs))
                /\ UNCHANGED err
       \/ /\ orch = "sync"
          /\ pc' = "score"
          /\ UNCHANGED <<store, err, sStatus>>

FinishBuildStage ==
    /\ pc = "build"
    /\ Unfinished(bStatus) = {}
    /\ \/ /\ built # <<>>
          /\ CloseBuild(built, "none")
       \/ /\ built = <<>>
          /\ \/ CloseBuild(<<[wps |-> <<>>, dur |-> DurationOf(<<>>)]>>, "ok")
             \/ CloseBuild(<<>>, "failed")
    /\ UNCHANGED <<configVars, ep, zone, waypoints, candidates, bStatus,
                   bStarted, built, sStarted, scored, response>>

\* ---- stage 6: scoring ----
\* the parallel orchestrator scores every route by its own _score_one call
StartScore(i) ==
    /\ pc = "score"
    /\ orch = "parallel"
    /\ sStatus[i] = "pending"
    /\ \A j \in 1..(i - 1) : sStatus[j] # "pending"
    /\ Cardinality(Running(sStatus)) < ScoreSlots(cfg, Len(routes))
    /\ sStatus' = [sStatus EXCEPT ![i] = "running"]
    /\ sStarted' = Append(sStarted, i)
    /\ UNCHANGED <<configVars, store, pc, err, ep, zone, waypoints, candidates,
                   buildVars, scored, response>>

FinishScore(i) ==
    /\ pc = "score"
    /\ orch = "parallel"
    /\ sStatus[i] = "running"
    /\ \/ /\ scored' = Append(scored, ScoreOne(routes[i], SimilarityOf(routes[i])))
          /\ sStatus' = [sStatus EXCEPT ![i] = "ok"]
       \/ /\ sStatus' = AfterTaskFailure(sStatus, i)
          /\ UNCHANGED scored
    /\ UNCHANGED <<configVars, store, pc, err, ep, zone, waypoints, candidates,
                   buildVars, sStarted, response>>

\* scored.sort(key=overall_score, reverse=True);
\* top = scored[:max(1, int(request.max_results or 3))]
Ranked(ss, n) ==
    PySliceTo(SortByOverallDesc(ss), Max(1, IF n = 0 THEN 3 ELSE n))

\* orchestrator.py 511-565: rank, shape, return
RankAndRespond ==
    /\ pc = "score"
    /\ orch = "parallel"
    /\ Unfinished(sStatus) = {}
    /\ \E n \in MaxResultsTried :
          /\ maxResults' = n
          /\ response' = Ranked(scored, n)
    /\ scored' = SortByOverallDesc(scored)
    /\ pc' = "done"
    /\ UNCHANGED <<cgVars, fnVars, cfg, reqNo, orch, explicitCoords, store, err, ep,
                   zone, waypoints, candidates, buildVars, sStatus, sStarted>>

\* orchestrator_sync.py 348-421: one score_routes call over all routes, with
\* no handler around it, then the same ranking
ScoreAndRespondSync ==
    /\ pc = "score"
    /\ orch = "sync"
    /\ \/ Raise("scoring", <<configVars, store, ep, zone, waypoints, candidates,
                            buildVars, scoreVars>>)
       \/ LET raws == [i \in 1..Len(routes) |-> SimilarityOf(routes[i])]
          IN  \E n \in MaxResultsTried :
                /\ maxResults' = n
                /\ scored' = SortByOverallDesc(ScoreRoutes(routes, raws))
                /\ response' = Ranked(ScoreRoutes(routes, raws), n)
                /\ pc' = "done"
                /\ UNCHANGED <<cgVars, fnVars, cfg, reqNo, orch, explicitCoords, store,
                               err, ep, zone, waypoints, candidates, buildVars,
                               sStatus, sStarted>>

\* the next request arrives once this one has returned or raised
NextRequest ==
    /\ pc \in {"done", "failed"}
    /\ reqNo < MaxRequests
    /\ reqNo' = reqNo + 1
    /\ orch' \in Orchestrators
    /\ explicitCoords' \in BOOLEAN
    /\ maxResults' = 0
    /\ pc' = "llm_get"
    /\ err' = "none"
    /\ ep' = "none"
    /\ zone' = "none"
    /\ waypoints' = <<>>
    /\ candidates' = <<>>
    /\ bStatus' = <<>>
    /\ bStarted' = <<>>
    /\ built' = <<>>
    /\ fallback' = "none"
    /\ routes' = <<>>
    /\ sStatus' = <<>>
    /\ sStarted' = <<>>
    /\ scored' = <<>>
    /\ response' = <<>>
    /\ UNCHANGED <<cgVars, fnVars, cfg, store>>

Next ==
    \/ LlmCacheGet
    \/ Extract
    \/ ResolveEndpoints
    \/ SearchZoneStage
    \/ FetchWaypoints
    \/ PrepareBuild
    \/ \E i \in DOMAIN bStatus : StartBuild(i)
    \/ \E i \in DOMAIN bStatus : FinishBuild(i)
    \/ FinishBuildStage
    \/ \E i \in DOMAIN sStatus : StartScore(i)
    \/ \E i \in DOMAIN sStatus : FinishScore(i)
    \/ RankAndRespond
    \/ ScoreAndRespondSync
    \/ NextRequest

Spec == Init /\ [][Next]_vars

-----------------------------------------------------------------------------
(* SpecCand: _make_candidates over bounded waypoint lists and knob settings *)

\* waypoint lists of a given length: waypoint k of the list has id k
WaypointLists(maxLen) ==
    UNION {[1..n -> Relevances] : n \in 0..maxLen}

AsWaypoints(rels) ==
    [k \in 1..Len(rels) |->
        [id |-> k, lat7 |-> 0, rel |-> rels[k], near |-> FALSE]]

\* knob settings tried: WP_TOP_K, ROUTE_MAX_SINGLE/PAIRS/TRIPLES,
\* MAX_WP_PER_ROUTE, RB_MAX_CANDIDATES (0 switches the ceiling off)
CandConfigs ==
    [wp_top_k          : {0, MaxKnob},
     route_max_single  : 0..MaxKnob,
     route_max_pairs   : 0..MaxKnob,
     route_max_triples : {0, 1},
     max_wp_per_route  : {0, 2},
     rb_max_candidates : {0, 1, MaxKnob}]

\* the pipeline stands still while SpecCand runs
PipeIdle ==
    /\ cfg = <<>>
    /\ store = EmptyStore
    /\ reqNo = 0
    /\ orch = "parallel"
    /\ explicitCoords = FALSE
    /\ maxResults = 0
    /\ RequestStarts

CandInit ==
    /\ PipeIdle
    /\ FnIdle
    /\ cgPc = "input"
    /\ cgOrch \in Orchestrators
    /\ cgCfg \in CandConfigs
    /\ cgWps \in {AsWaypoints(r) : r \in WaypointLists(MaxCandWps)}
    /\ cgOut = <<>>

\* one call of _make_candidates(waypoints)
CallMakeCandidates ==
    /\ cgPc = "input"
    /\ cgOut' = MakeCandidates(cgOrch, cgWps, cgCfg)
    /\ cgPc' = "done"
    /\ UNCHANGED <<cgOrch, cgCfg, cgWps, fnVars, pipeVars>>

CandNext == CallMakeCandidates

SpecCand == CandInit /\ [][CandNext]_vars

-----------------------------------------------------------------------------
(* SpecBuild: single calls of the RouteBuilder methods                     *)
(* (backend/routing/route_builder.py).  Here a Route is                    *)
(* [wps, segments, total_distance, total_duration] and a RouteSegment is   *)
(* [dist, dur].  The directions provider's answers are a tape indexed by   *)
(* the legs a call may ask for (cyclically): `fail` for a request that     *)
(* raises or returns no route, else the distance and the duration in       *)
(* tenths of a second.                                                     *)

\* MAX_DIRECT_ALTERNATIVES default
MaxDirectAlts == 3
\* OPT_TRIPS_MAX_COORDS
OptTripsMaxCoords == 12

LegAnswers ==
    {[fail |-> TRUE, dist |-> 0, dur10 |-> 0]}
    \cup {[fail |-> FALSE, dist |-> a[1], dur10 |-> a[2]] :
              a \in {<<0, 4>>, <<120, 15>>, <<250, 25>>}}

\* the answer to the directions request for leg k of a call
Leg(tape, k) == tape[((k - 1) % Len(tape)) + 1]

\* _directions_segment_mapbox: the first route of the answer as a RouteSegment
DirectionsSegment(ans) ==
    [dist |-> ans.dist, dur |-> RoundHalfEven10(ans.dur10)]

RECURSIVE TotalDistance(_)
TotalDistance(segs) ==
    IF segs = <<>> THEN 0 ELSE Head(segs).dist + TotalDistance(Tail(segs))

\* a total that counts the first leg only
TotalDurationOfFirstLeg(segs) ==
    IF segs = <<>> THEN 0 ELSE Head(segs).dur

\* sum(s.duration_seconds for s in segments)
RECURSIVE TotalDuration(_)
TotalDuration(segs) ==
    IF segs = <<>> THEN 0 ELSE Head(segs).dur + TotalDuration(Tail(segs))

\* _optimize_waypoint_order: every path returns `waypoints` as given
OptimizeWaypointOrder(wps) == wps

\* _build_multi_route whose legs are numbered from `from`: <<route>>,
\* or <<>> when a directions request raised (the exception propagates)
BuildMultiRoute(wps, tape, from, optimize) ==
    LET ordered == IF optimize /\ Len(wps) >= 2 THEN OptimizeWaypointOrder(wps)
                                               ELSE wps
        n       == Len(ordered) + 1
    IN  IF \E k \in 0..(n - 1) : Leg(tape, from + k).fail
        THEN <<>>
        ELSE LET segs == [k \in 1..n |-> DirectionsSegment(Leg(tape, from + k - 1))]
             IN  << [wps            |-> ordered,
                     segments       |-> segs,
                     total_distance |-> TotalDistance(segs),
                     total_duration |-> TotalDuration(segs)] >>

\* routes.sort(key=total_duration_seconds): stable, ascending
RECURSIVE SortByDurationAsc(_)
SortByDurationAsc(rs) ==
    IF rs = <<>> THEN <<>>
    ELSE LET front == SortByDurationAsc(SubSeq(rs, 1, Len(rs) - 1))
             x     == rs[Len(rs)]
             k     == Cardinality({i \in 1..Len(front) :
                                       front[i].total_duration <= x.total_duration})
         IN  SubSeq(front, 1, k) \o <<x>> \o SubSeq(front, k + 1, Len(front))

\* a call's outcome: the routes returned, or `raised`
Returned(rs) == [raised |-> FALSE, routes |-> rs]
Raised == [raised |-> TRUE, routes |-> <<>>]

\* do_optimize of build_route and the test in _build_multi_route: whether
\* the optimized-trips request is sent
TripRequested(wps) ==
    (Len(wps) >= 2 /\ 2 + Len(wps) <= OptTripsMaxCoords) /\ Len(wps) >= 2

\* build_route(origin, destination, waypoints, constraints)
BuildRoute(wps, tape) ==
    LET r == BuildMultiRoute(wps, tape, 1,
                             Len(wps) >= 2 /\ 2 + Len(wps) <= OptTripsMaxCoords)
    IN  IF r = <<>> THEN Raised ELSE Returned(r)

\* build_direct_route: one segment, None when the directions request raised
BuildDirectRoute(tape) ==
    IF Leg(tape, 1).fail THEN Returned(<<>>)
    ELSE LET seg == DirectionsSegment(Leg(tape, 1))
         IN  Returned(<< [wps            |-> <<>>,
                          segments       |-> <<seg>>,
                          total_distance |-> seg.dist,
                          total_duration |-> seg.dur] >>)

\* the via-waypoint build_direct_routes synthesises
SyntheticVia == [id |-> 0, lat7 |-> 0, rel |-> 0, near |-> FALSE]

RECURSIVE FlattenRoutes(_)
FlattenRoutes(rss) ==
    IF rss = <<>> THEN <<>> ELSE Head(rss) \o FlattenRoutes(Tail(rss))

\* build_direct_routes(origin, destination, constraints, max_alternatives):
\* `native` is the answer of the alternatives request (it raises when
\* native.fail); missing alternatives are filled with one-via routes, a via
\* whose build raises being skipped
BuildDirectRoutes(native, tape, maxAlt) ==
    IF native.fail THEN Raised
    ELSE LET alts   == PySliceTo(native.routes, maxAlt)
             direct == [i \in 1..Len(alts) |->
                           [wps            |-> <<>>,
                            segments       |-> <<DirectionsSegment(alts[i])>>,
                            total_distance |-> alts[i].dist,
                            total_duration |-> RoundHalfEven10(alts[i].dur10)]]
         IN  IF Len(direct) >= maxAlt
             THEN Returned(PySliceTo(SortByDurationAsc(direct), maxAlt))
             ELSE LET need  == Min(4, Max(0, maxAlt - Len(direct)))
                      synth == FlattenRoutes(
                                   [j \in 1..need |->
                                       BuildMultiRoute(<<SyntheticVia>>, tape,
                                                       2 * (j - 1) + 1, FALSE)])
                  IN  Returned(PySliceTo(SortByDurationAsc(direct \o synth), maxAlt))

\* build_routes(origin, destination, waypoints, constraints): direct
\* alternatives without waypoints; else a route via each of the top 5
\* waypoints and one via the top K for K = 2..6; a build that raises makes
\* the call raise
BuildRoutes(wps, native, tape) ==
    IF wps = <<>> THEN BuildDirectRoutes(native, tape, MaxDirectAlts)
    ELSE LET ordered == SortByRelevanceDesc(wps)
             n       == Len(ordered)
             sc      == Min(5, n)
             singles == [i \in 1..sc |->
                            BuildMultiRoute(<<ordered[i]>>, tape, 2 * (i - 1) + 1, FALSE)]
             multis  == [k \in 2..Min(6, n) |->
                            BuildMultiRoute(SubSeq(ordered, 1, k), tape,
                                            2 * sc + (k * (k + 1)) \div 2 - 2, TRUE)]
         IN  IF \/ \E i \in 1..sc : singles[i] = <<>>
                \/ \E k \in 2..Min(6, n) : multis[k] = <<>>
             THEN Raised
             ELSE Returned(SortByDurationAsc(
                      FlattenRoutes(singles)
                      \o FlattenRoutes([k \in 1..(Min(6, n) - 1) |-> multis[k + 1]])))

\* _route_to_dict / _route_from_dict: the routes_v3 entry of a route and the
\* Route rebuilt from it (float() and int() leave the stored numbers as they
\* are; JSON round-trips them)
SegToDict(g) == [distance_meters |-> g.dist, duration_seconds |-> g.dur]
SegFromDict(d) == [dist |-> d.distance_meters, dur |-> d.duration_seconds]

RouteToDict(r) ==
    [waypoints              |-> r.wps,
     segments               |-> [i \in 1..Len(r.segments) |-> SegToDict(r.segments[i])],
     total_distance_meters  |-> r.total_distance,
     total_duration_seconds |-> r.total_duration]

RouteFromDict(d) ==
    [wps            |-> d.waypoints,
     segments       |-> [i \in 1..Len(d.segments) |-> SegFromDict(d.segments[i])],
     total_distance |-> d.total_distance_meters,
     total_duration |-> d.total_duration_seconds]

\* ---- the state machine ----
BuilderOps == {"build_route", "build_direct_route", "build_direct_routes", "build_routes"}

Tapes == [1..MaxTape -> LegAnswers]

\* answers of the alternatives request: it raises, or lists 0..MaxNative routes
NativeAnswers ==
    {[fail |-> TRUE, routes |-> <<>>]}
    \cup {[fail |-> FALSE, routes |-> rs] :
              rs \in UNION {[1..n -> {a \in LegAnswers : ~a.fail}] : n \in 0..MaxNative}}

NoNative == [fail |-> FALSE, routes |-> <<>>]

BuildWaypointLists == {AsWaypoints(r) : r \in WaypointLists(MaxBuildWps)}

\* answers of the optimized-trips request for build_route: the visiting
\* order of the waypoints (their positions in the list given), or <<>> for
\* a request that fails or answers without waypoints
TripAnswers(wps) ==
    {<<>>} \cup (IF Len(wps) >= 2
                 THEN Orderings([i \in 1..Len(wps) |-> i])
                 ELSE {})

BuildInputs(op) ==
    IF op = "build_route"
    THEN UNION {[wps : {w}, native : {NoNative}, tape : Tapes,
                 maxAlt : {MaxDirectAlts}, trip : TripAnswers(w)] :
                    w \in BuildWaypointLists}
    ELSE IF op = "build_direct_route"
    THEN [wps : {<<>>}, native : {NoNative}, tape : Tapes, maxAlt : {MaxDirectAlts},
          trip : {<<>>}]
    ELSE IF op = "build_direct_routes"
    THEN [wps : {<<>>}, native : NativeAnswers, tape : Tapes,
          maxAlt : {1, MaxDirectAlts}, trip : {<<>>}]
    ELSE [wps : BuildWaypointLists \ {<<>>}, native : {NoNative}, tape : Tapes,
          maxAlt : {MaxDirectAlts}, trip : {<<>>}]
         \cup [wps : {<<>>}, native : NativeAnswers, tape : Tapes,
               maxAlt : {MaxDirectAlts}, trip : {<<>>}]

BuildInit ==
    /\ PipeIdle
    /\ CandIdle
    /\ fnPc = "call"
    /\ fnOp \in BuilderOps
    /\ fnIn \in BuildInputs(fnOp)
    /\ fnOut = <<>>
    /\ fnSelf = <<>>

Return(op, result) ==
    /\ fnPc = "call"
    /\ fnOp = op
    /\ fnOut' = result
    /\ fnPc' = "done"
    /\ UNCHANGED <<fnOp, fnIn, fnSelf, cgVars, pipeVars>>

CallBuildRoute == Return("build_route", BuildRoute(fnIn.wps, fnIn.tape))

CallBuildDirectRoute == Return("build_direct_route", BuildDirectRoute(fnIn.tape))

CallBuildDirectRoutes ==
    Return("build_direct_routes",
           BuildDirectRoutes(fnIn.native, fnIn.tape, fnIn.maxAlt))

CallBuildRoutes ==
    Return("build_routes", BuildRoutes(fnIn.wps, fnIn.native, fnIn.tape))

\* the routes are written to the routes cache and read back
ReloadRoutes ==
    /\ fnPc = "done"
    /\ fnOp \in BuilderOps
    /\ ~fnOut.raised
    /\ fnOut' = Returned([i \in 1..Len(fnOut.routes) |->
                             RouteFromDict(RouteToDict(fnOut.routes[i]))])
    /\ fnPc' = "reloaded"
    /\ UNCHANGED <<fnOp, fnIn, fnSelf, cgVars, pipeVars>>

BuildNext ==
    \/ CallBuildRoute
    \/ CallBuildDirectRoute
    \/ CallBuildDirectRoutes
    \/ CallBuildRoutes
    \/ ReloadRoutes

SpecBuild == BuildInit /\ [][BuildNext]_vars

-----------------------------------------------------------------------------
(* SpecSearch: WaypointSearcher.search_waypoints followed by the            *)
(* orchestrator's de-duplication (backend/waypoints/waypoint_searcher.py,  *)
(* orchestrator.py 385-396, orchestrator_sync.py 306-314)                  *)

\* a duplicate seen later is kept although it scores no higher
KeepLastSeen(old, new) == TRUE

\* waypoint_searcher.py 86: `w.relevance_score > dedup[key].relevance_score`
KeepHigher(old, new) == new.rel > old.rel

\* waypoint_searcher.py 83-87: dedup[key] = w for a new key or a higher score
\* (a dict keeps the position of the key's first insertion)
RECURSIVE SearchDedup(_, _)
SearchDedup(rest, dedup) ==
    IF rest = <<>> THEN dedup
    ELSE LET w    == Head(rest)
             same == {i \in 1..Len(dedup) : WpKey(dedup[i]) = WpKey(w)}
         IN  IF same = {}
             THEN SearchDedup(Tail(rest), Append(dedup, w))
             ELSE LET i == CHOOSE j \in same : TRUE
                  IN  IF KeepHigher(dedup[i], w)
                      THEN SearchDedup(Tail(rest), [dedup EXCEPT ![i] = w])
                      ELSE SearchDedup(Tail(rest), dedup)

\* search_waypoints: [] for a zone without polygon, else the ranked
\* waypoints of all queries, de-duplicated and sorted by relevance
SearchWaypoints(zoneEmpty, all) ==
    IF zoneEmpty THEN <<>> ELSE SortByRelevanceDesc(SearchDedup(all, <<>>))

\* what the Overpass queries can return: waypoints of two names at three
\* positions, two of which round to the same 6-decimal coordinate
FoundWaypoints ==
    [id : {1, 2}, lat7 : {8, 12, 16}, rel : Relevances, near : {FALSE}]

SearchInputs ==
    [all       : UNION {[1..n -> FoundWaypoints] : n \in 0..MaxFound},
     zoneEmpty : BOOLEAN,
     orch      : Orchestrators,
     wp_top_k  : {0, 1, DefaultWpTopK}]

SearchInit ==
    /\ PipeIdle
    /\ CandIdle
    /\ fnPc = "call"
    /\ fnOp = "search_waypoints"
    /\ fnIn \in {i \in SearchInputs : i.zoneEmpty => i.all = <<>>}
    /\ fnOut = <<>>
    /\ fnSelf = <<>>

CallSearchWaypoints ==
    Return("search_waypoints", SearchWaypoints(fnIn.zoneEmpty, fnIn.all))

\* generate_routes: `# de-dupe & keep top-K` over the searcher's result
OrchestratorDedupe ==
    /\ fnPc = "done"
    /\ fnOp = "search_waypoints"
    /\ fnOut' = DedupTopK(fnOut, fnIn.orch, [wp_top_k |-> fnIn.wp_top_k])
    /\ fnPc' = "deduped"
    /\ UNCHANGED <<fnOp, fnIn, fnSelf, cgVars, pipeVars>>

SearchNext == CallSearchWaypoints \/ OrchestratorDedupe

SpecSearch == SearchInit /\ [][SearchNext]_vars

-----------------------------------------------------------------------------
(* SpecScore: single calls of the RouteScorer methods                      *)
(* (backend/scoring/route_scorer.py) and the ranking the orchestrators     *)
(* apply to the scores (orchestrator.py 511-513, orchestrator_sync.py      *)
(* 359-361)                                                                *)

Wp(k, r) == [id |-> k, lat7 |-> 0, rel |-> r, near |-> FALSE]

\* routes handed to score_routes: direct, through one waypoint or through
\* two; 0 s (origin = destination), 10 s or 30 s long; with the mean image
\* similarity the first pass measures for them (thousandths)
ScoredRouteShapes ==
    [route : [wps : {<<>>, <<Wp(1, 7)>>, <<Wp(1, 7), Wp(2, 4)>>},
              dur : {0, 10, 30}],
     raw   : {0, 400, 800}]

\* a `baseline_duration` keyword argument, given or not
BaselineArgs == {[given |-> FALSE, value |-> 0], [given |-> TRUE, value |-> 10]}

ScoreRoutesInputs ==
    [batch    : UNION {[1..n -> ScoredRouteShapes] : n \in 0..MaxScoreRoutes},
     baseline : BaselineArgs]

\* relevance scores of the waypoints handed to the preference score on its own
PrefRelevances == {7, 45, 50, 55, 60, 90}

SubScores == {0, 20000, 50000, 90000, 100000}

ScoreInputs(op) ==
    IF op = "score_routes" THEN ScoreRoutesInputs
    ELSE IF op = "_calculate_efficiency_score"
    THEN [d : 0..MaxDuration, m : 0..MaxDuration]
    ELSE IF op = "_calculate_preference_match_score"
    THEN [rels : UNION {[1..n -> PrefRelevances] : n \in 0..MaxPrefWps}]
    ELSE [clip : SubScores, eff : SubScores, pref : SubScores \cup {NotApplicable}]

ScorerOps ==
    {"score_routes", "_calculate_efficiency_score",
     "_calculate_preference_match_score", "_combine_scores"}

ScoreInit ==
    /\ PipeIdle
    /\ CandIdle
    /\ fnPc = "call"
    /\ fnOp \in ScorerOps
    /\ fnIn \in ScoreInputs(fnOp)
    /\ fnOut = <<>>
    /\ fnSelf = <<>>

BatchRoutes(batch) == [i \in 1..Len(batch) |-> batch[i].route]
BatchRaws(batch) == [i \in 1..Len(batch) |-> batch[i].raw]

\* score_routes(routes, user_prompt, min_images_per_route,
\* max_images_per_route, debug): the signature has no baseline parameter, so
\* a call passing baseline_duration raises TypeError
ScoreRoutesCall(batch, baseline) ==
    IF baseline.given
    THEN [raised |-> TRUE, scores |-> <<>>]
    ELSE [raised |-> FALSE,
          scores |-> ScoreRoutes(BatchRoutes(batch), BatchRaws(batch))]

CallScoreRoutes ==
    Return("score_routes", ScoreRoutesCall(fnIn.batch, fnIn.baseline))

CallEfficiencyScore ==
    Return("_calculate_efficiency_score", EfficiencyScore(fnIn.d, fnIn.m))

CallPreferenceMatchScore ==
    Return("_calculate_preference_match_score",
           PreferenceMatchScore([wps |-> [k \in 1..Len(fnIn.rels) |-> Wp(k, fnIn.rels[k])],
                                 dur |-> 0]))

CallCombineScores ==
    Return("_combine_scores", CombineScores(fnIn.clip, fnIn.eff, fnIn.pref))

\* the scores as the orchestrator collects them: the sync orchestrator takes
\* the list of one score_routes call; the parallel one appends the result of
\* one _score_one call per route in the order the calls complete
Collected(o, batch) ==
    IF o = "sync"
    THEN {ScoreRoutes(BatchRoutes(batch), BatchRaws(batch))}
    ELSE Orderings([i \in 1..Len(batch) |-> ScoreOne(batch[i].route, batch[i].raw)])

\* scored.sort(...); top = scored[:max_results]: the ranked list of the
\* response
RankForResponse ==
    /\ fnPc = "done"
    /\ fnOp = "score_routes"
    /\ ~fnOut.raised
    /\ \E o \in Orchestrators, n \in MaxResultsTried :
          \E arrived \in Collected(o, fnIn.batch) :
              fnOut' = [raised |-> FALSE, scores |-> Ranked(arrived, n)]
    /\ fnPc' = "ranked"
    /\ UNCHANGED <<fnOp, fnIn, fnSelf, cgVars, pipeVars>>

ScoreNext ==
    \/ CallScoreRoutes
    \/ CallEfficiencyScore
    \/ CallPreferenceMatchScore
    \/ CallCombineScores
    \/ RankForResponse

SpecScore == ScoreInit /\ [][ScoreNext]_vars

-----------------------------------------------------------------------------
(* SpecZone: single calls of Geocoder.create_search_zone                   *)
(* (backend/geocoding/geocoder.py)                                         *)

\* ISO_MAX_MINUTES: the cap of one isochrone request
IsoMaxMinutes == 60

\* int(round(num / den)) for num >= 0, den > 0: Python rounds halves to even
RoundHalfEvenDiv(num, den) ==
    LET q == num \div den
        r == num % den
    IN  IF 2 * r < den THEN q
        ELSE IF 2 * r > den THEN q + 1
        ELSE IF q % 2 = 0 THEN q ELSE q + 1

\* a split list with one value for every minute of the budget
EveryMinute(maxTravelTime, maxCount) ==
    [i \in 1..(maxTravelTime + 1) |-> i - 1]

\* _evenly_spaced_minutes: n = max(2, min(max_count, max_travel_time + 1))
\* values int(round(i * (max_travel_time / (n - 1)))) for i in range(n)
EvenlySpacedMinutes(maxTravelTime, maxCount) ==
    LET n == Max(2, Min(maxCount, maxTravelTime + 1))
    IN  [i \in 1..n |-> RoundHalfEvenDiv((i - 1) * maxTravelTime, n - 1)]

\* list(range(0, max_travel_time + 1, 5))
RangeByFive(maxTravelTime) ==
    IF maxTravelTime < 0 THEN <<>>
    ELSE [i \in 1..((maxTravelTime \div 5) + 1) |-> 5 * (i - 1)]

\* a cap that sends a request above the cap to zero minutes
CapToZero(minutes) ==
    IF minutes > IsoMaxMinutes \/ minutes < 0 THEN 0 ELSE minutes

\* _cap_minutes
CapMinutes(minutes) ==
    IF minutes > IsoMaxMinutes THEN IsoMaxMinutes
    ELSE IF minutes < 0 THEN 0 ELSE minutes

\* _mb_profile results the calls are made with
Profiles == {"driving", "walking"}

\* key = (round(lat, 6), round(lon, 6), capped, profile); a center is its
\* latitude in tenths of a micro-degree, the longitude being rounded alike
IsoKey(center, capped, profile) == <<RoundHalfEven10(center), capped, profile>>

\* Geocoder.__init__: an empty _iso_cache; `requests` is the history of the
\* requests sent to the isochrone provider and `calls` counts the
\* create_isochrone calls made on the object
NewGeocoder == [iso_cache |-> {}, requests |-> <<>>, calls |-> 0]

\* a create_isochrone that asks the provider on every call
CreateIsochroneUncached(self, center, minutes, profile, ok) ==
    LET capped == CapMinutes(minutes)
        sent   == [self EXCEPT !.calls = @ + 1,
                               !.requests = Append(@, [key     |-> IsoKey(center, capped, profile),
                                                       minutes |-> capped,
                                                       ok      |-> ok])]
    IN  [self |-> sent, raised |-> ~ok, minutes |-> capped]

\* create_isochrone up to the geometry: a cached key is served from
\* _iso_cache; otherwise the provider is asked for contours_minutes = capped,
\* raise_for_status raises on a failed request, and the key of an answered
\* request is stored, an answer without features included
CreateIsochrone(self, center, minutes, profile, ok) ==
    LET capped == CapMinutes(minutes)
        key    == IsoKey(center, capped, profile)
        asked  == [self EXCEPT !.calls = @ + 1]
        sent   == [asked EXCEPT !.requests =
                      Append(@, [key |-> key, minutes |-> capped, ok |-> ok])]
    IN  IF key \in self.iso_cache
        THEN [self |-> asked, raised |-> FALSE, minutes |-> capped]
        ELSE IF ok
        THEN [self    |-> [sent EXCEPT !.iso_cache = @ \cup {key}],
              raised  |-> FALSE,
              minutes |-> capped]
        ELSE [self |-> sent, raised |-> TRUE, minutes |-> capped]

\* the isochrone calls of one create_search_zone, in order: _iso_geom for
\* the origin and the destination side of every split, then create_isochrone
\* for the representative pair
IsoDemands(origin, destination, combos, maxTravelTime, reprOrigin) ==
    [k \in 1..(2 * Len(combos)) |->
        IF k % 2 = 1
        THEN [center |-> origin, minutes |-> combos[(k + 1) \div 2], via |-> "_iso_geom"]
        ELSE [center  |-> destination,
              minutes |-> maxTravelTime - combos[k \div 2],
              via     |-> "_iso_geom"]]
    \o <<[center |-> origin, minutes |-> reprOrigin, via |-> "create_isochrone"],
         [center  |-> destination,
          minutes |-> maxTravelTime - reprOrigin,
          via     |-> "create_isochrone"]>>

\* the Geocoder after the isochrone calls of `demands`, every provider
\* request being answered: _iso_geom makes no call for minutes <= 0, and a
\* call reaches the provider when its key is neither in the cache at the
\* start nor the key of an earlier call of the list
RunDemands(self, demands, profile) ==
    LET KeyOf(k)  == IsoKey(demands[k].center, CapMinutes(demands[k].minutes), profile)
        Called(k) == ~(demands[k].via = "_iso_geom" /\ demands[k].minutes <= 0)
        Sent(k)   == /\ Called(k)
                     /\ KeyOf(k) \notin self.iso_cache
                     /\ \A j \in 1..(k - 1) : Called(j) => KeyOf(j) # KeyOf(k)
        sentAt    == {k \in 1..Len(demands) : Sent(k)}
        Nth(i)    == CHOOSE k \in sentAt : Cardinality({j \in sentAt : j <= k}) = i
    IN  [iso_cache |-> self.iso_cache \cup {KeyOf(k) : k \in sentAt},
         requests  |-> self.requests \o
                           [i \in 1..Cardinality(sentAt) |->
                               [key     |-> KeyOf(Nth(i)),
                                minutes |-> CapMinutes(demands[Nth(i)].minutes),
                                ok      |-> TRUE]],
         calls     |-> self.calls
                           + Cardinality({k \in 1..Len(demands) : Called(k)})]

\* how far (cells of a line through origin and destination) the provider's
\* isochrone of `minutes` reaches around its center; each kind grows with
\* the minutes
ReachKinds == {"slow", "fast", "stepped"}

Reach(kind, minutes) ==
    IF kind = "slow" THEN minutes \div 10
    ELSE IF kind = "fast" THEN minutes \div 3
    ELSE IF minutes < 30 THEN 0 ELSE 8

\* _iso_geom: a point buffer around the center for minutes <= 0, else the
\* polygon of the isochrone of the capped minutes
IsoGeom(cell, minutes, kind) ==
    IF minutes <= 0 THEN {cell}
    ELSE LET r == Reach(kind, CapMinutes(minutes))
         IN  (cell - r)..(cell + r)

\* the connected parts of a region of the line: one from every cell
\* without a left neighbour to the nearest cell without a right neighbour
Parts(cells) ==
    LET ends == {b \in cells : (b + 1) \notin cells}
        EndOf(a) == CHOOSE b \in ends :
                        b >= a /\ \A c \in ends : c >= a => b <= c
    IN  {a..EndOf(a) : a \in {c \in cells : (c - 1) \notin cells}}

\* max(union_geom.geoms, key=lambda g: g.area)
LargestParts(cells) ==
    {q \in Parts(cells) : \A o \in Parts(cells) : Cardinality(q) >= Cardinality(o)}

\* union of the intersections of the split pairs
UnionOfOverlaps(combos, maxTravelTime, geo) ==
    UNION {IsoGeom(0, combos[i], geo.reachO)
               \cap IsoGeom(geo.dist, maxTravelTime - combos[i], geo.reachD) :
           i \in 1..Len(combos)}

\* create_search_zone: the origin/destination minute pairs whose isochrones
\* are intersected, the sizes of the two representative isochrones of the
\* returned zone and the zone's ring, one of `rings`; combos[len(combos) // 2]
\* of an empty list raises
CreateSearchZone(base, maxAdditionalTime, geo) ==
    LET maxTravelTime == base + maxAdditionalTime
        combos == IF base > 60
                  THEN EvenlySpacedMinutes(maxTravelTime, 20)
                  ELSE RangeByFive(maxTravelTime)
    IN  IF combos = <<>>
        THEN [raised |-> TRUE, splits |-> <<>>, isochrones |-> <<>>,
              rings |-> {{}}, demands |-> <<>>]
        ELSE LET reprOrigin == combos[(Len(combos) \div 2) + 1]
                 overlap    == UnionOfOverlaps(combos, maxTravelTime, geo)
             IN  [raised     |-> FALSE,
                  splits     |-> [i \in 1..Len(combos) |->
                                     [o |-> combos[i],
                                      d |-> maxTravelTime - combos[i]]],
                  isochrones |-> <<CapMinutes(reprOrigin),
                                   CapMinutes(maxTravelTime - reprOrigin)>>,
                  rings      |-> IF overlap = {} THEN {{}} ELSE LargestParts(overlap),
                  demands    |-> IsoDemands(geo.origin, geo.destination, combos,
                                            maxTravelTime, reprOrigin)]

\* where origin and destination lie and how the isochrones around them grow
Geometries ==
    [origin : {12}, destination : {16}, profile : {"driving"},
     dist : {4, 9}, reachO : ReachKinds, reachD : {"slow", "stepped"}]

\* the provider's shortest travel time and the caller's allowance, minutes
ZoneInputs ==
    [base : 0..MaxBaseMinutes, extra : 0..MaxExtraMinutes, geo : Geometries]

\* arguments of one create_isochrone call and whether the provider answers
IsoInputs ==
    [center : {8, 12, 16}, minutes : {-1, 5, 61}, profile : Profiles, ok : BOOLEAN]

ZoneInit ==
    /\ PipeIdle
    /\ CandIdle
    /\ fnPc = "call"
    /\ \/ fnOp = "create_search_zone" /\ fnIn \in ZoneInputs
       \/ fnOp = "create_isochrone" /\ fnIn \in IsoInputs
    /\ fnOut = <<>>
    /\ fnSelf = NewGeocoder

CallCreateSearchZone ==
    /\ fnPc = "call"
    /\ fnOp = "create_search_zone"
    /\ \E res \in {CreateSearchZone(fnIn.base, fnIn.extra, fnIn.geo)} :
          \E ring \in res.rings :
              /\ fnOut' = [raised     |-> res.raised,
                           splits     |-> res.splits,
                           isochrones |-> res.isochrones,
                           zone       |-> ring]
              /\ fnSelf' = RunDemands(fnSelf, res.demands, fnIn.geo.profile)
    /\ fnPc' = "done"
    /\ UNCHANGED <<fnOp, fnIn, cgVars, pipeVars>>

\* the same origin, destination and mode again, on the same Geocoder, with
\* an allowance at least as large
CallWithMoreExtra ==
    /\ fnPc = "done"
    /\ fnOp = "create_search_zone"
    /\ \E more \in fnIn.extra..MaxExtraMinutes :
          \E res \in {CreateSearchZone(fnIn.base, more, fnIn.geo)} :
              \E ring \in res.rings :
                  /\ fnOut' = [first  |-> fnOut,
                               extra  |-> more,
                               second |-> [raised     |-> res.raised,
                                           splits     |-> res.splits,
                                           isochrones |-> res.isochrones,
                                           zone       |-> ring]]
                  /\ fnSelf' = RunDemands(fnSelf, res.demands, fnIn.geo.profile)
    /\ fnPc' = "again"
    /\ UNCHANGED <<fnOp, fnIn, cgVars, pipeVars>>

CallCreateIsochrone ==
    /\ fnPc = "call"
    /\ fnOp = "create_isochrone"
    /\ LET res == CreateIsochrone(fnSelf, fnIn.center, fnIn.minutes,
                                  fnIn.profile, fnIn.ok)
       IN  /\ fnOut' = [raised |-> res.raised, minutes |-> res.minutes]
           /\ fnSelf' = res.self
    /\ fnPc' = "done"
    /\ UNCHANGED <<fnOp, fnIn, cgVars, pipeVars>>

\* the next create_isochrone call on the same Geocoder
NextIsochrone ==
    /\ fnPc = "done"
    /\ fnOp = "create_isochrone"
    /\ fnSelf.calls < MaxIsoCalls
    /\ fnIn' \in IsoInputs
    /\ fnPc' = "call"
    /\ UNCHANGED <<fnOp, fnOut, fnSelf, cgVars, pipeVars>>

ZoneNext ==
    \/ CallCreateSearchZone
    \/ CallWithMoreExtra
    \/ CallCreateIsochrone
    \/ NextIsochrone

SpecZone == ZoneInit /\ [][ZoneNext]_vars

-----------------------------------------------------------------------------
(* Cache keys: Cache._hash_key and the routes key of the parallel           *)
(* orchestrator (backend/orchestrator.py), computed by two orchestrator     *)
(* instances that run in separate processes and share one Redis.            *)
(* (checked under SpecKey)                                                  *)

\* PYTHONHASHSEED of a process: drawn afresh at every interpreter start
\* unless the environment pins it
HashSeeds == {"seedA", "seedB"}

\* CACHE_PREFIX settings tried
CachePrefixes == {"", "stage"}

\* travel modes a request can carry in its constraints
TransportModes == {"driving", "walking"}

\* Python's built-in hash() of the tuple of candidates, each a tuple of
\* (name, round(lat, 6), round(lon, 6)): the hash of a str is salted with
\* the process's seed, that of a float or of an empty tuple is not
PyHash(seed, cands) ==
    LET items == [i \in 1..Len(cands) |->
                     [k \in 1..Len(cands[i]) |-> WpKey(cands[i][k])]]
        hasStr == \E i \in 1..Len(cands) : Len(cands[i]) > 0
    IN  [salt |-> IF hasStr THEN seed ELSE "", of |-> items]

\* Cache._hash_key: the namespace, behind the prefix when one is set, and
\* the sha256 of the payload's JSON with sorted keys (one digest per payload)
HashKey(prefix, namespace, payload) ==
    [ns     |-> IF prefix # "" THEN <<prefix, namespace>> ELSE <<namespace>>,
     sha256 |-> payload]

\* r_key of generate_routes, hashed for the routes_v3 namespace
RoutesCacheKey(prefix, seed, origin, destination, ws, cands, constraints) ==
    HashKey(prefix, "routes_v3",
            [o           |-> origin,
             d           |-> destination,
             wps_topk    |-> [i \in 1..Len(ws) |-> WpKey(ws[i])],
             cand_hash   |-> PyHash(seed, cands),
             constraints |-> constraints])

\* the same request as it reaches two processes
KeyInputs ==
    [origin      : {12},
     destination : {16},
     wps         : BuildWaypointLists,
     knobs       : PipelineConfigs,
     mode        : TransportModes,
     writer      : HashSeeds,
     reader      : HashSeeds]

KeyOf(seed) ==
    RoutesCacheKey(fnSelf.prefix, seed, fnIn.origin, fnIn.destination,
                   fnIn.wps, MakeCandidatesParallel(fnIn.wps, fnIn.knobs),
                   [transport_mode |-> fnIn.mode])

KeyInit ==
    /\ CandIdle
    /\ PipeIdle
    /\ fnPc = "call"
    /\ fnOp = "routes_key"
    /\ fnIn \in KeyInputs
    /\ fnOut = <<>>
    /\ \E p \in CachePrefixes : fnSelf = [prefix |-> p]

\* the first process builds the routes and stores them under its key
StoreRoutes ==
    /\ fnPc = "call"
    /\ fnOp = "routes_key"
    /\ fnOut' = [stored |-> KeyOf(fnIn.writer)]
    /\ fnPc' = "done"
    /\ UNCHANGED <<fnOp, fnIn, fnSelf, cgVars, pipeVars>>

\* the second process looks the same request up
LookupRoutes ==
    /\ fnPc = "done"
    /\ fnOp = "routes_key"
    /\ LET asked == KeyOf(fnIn.reader)
       IN  fnOut' = [stored |-> fnOut.stored,
                     asked  |-> asked,
                     hit    |-> asked = fnOut.stored]
    /\ fnPc' = "looked_up"
    /\ UNCHANGED <<fnOp, fnIn, fnSelf, cgVars, pipeVars>>

KeyNext ==
    \/ StoreRoutes
    \/ LookupRoutes

SpecKey == KeyInit /\ [][KeyNext]_vars

-----------------------------------------------------------------------------
(* Travel mode of one request: the profile the Geocoder uses for the base   *)
(* travel time and the isochrones, and the profile the RouteBuilder uses    *)
(* for the legs (generate_routes of both orchestrators, Geocoder._mb_profile,*)
(* RouteBuilder._mb_profile).  "" stands for an unset environment variable  *)
(* and "none" for a key the LLM answer does not carry.                      *)
(* (checked under SpecMode)                                                 *)

MapboxProfiles == {"walking", "driving", "cycling"}

\* the dict lookup of both _mb_profile methods: .get(mode, "driving")
ProfileOrDriving(mode) == IF mode \in MapboxProfiles THEN mode ELSE "driving"

\* Geocoder._mb_profile: FORCE_TRANSPORT_MODE or transport_mode or ""
GeocoderMbProfile(force, mode) ==
    ProfileOrDriving(IF force # "" THEN force ELSE mode)

\* RouteBuilder._mb_profile: transport_mode or "driving"
RouteBuilderMbProfile(mode) ==
    ProfileOrDriving(IF mode = "" THEN "driving" ELSE mode)

\* LLMExtractor: constraints["transport_mode"] of the ExtractedParameters
ExtractedMode(llm, default) ==
    IF llm # "none" THEN llm
    ELSE IF default # "" THEN default ELSE "walking"

\* `# 2) transport mode`: (ep.constraints or {}).get("transport_mode",
\* os.getenv("DEFAULT_TRANSPORT_MODE", "driving"))
RequestMode(epMode, default) ==
    IF epMode # "none" THEN epMode
    ELSE IF default # "" THEN default ELSE "driving"

\* `# 5)`: constraints.setdefault("transport_mode", transport_mode), then
\* FORCE_TRANSPORT_MODE or DEFAULT_TRANSPORT_MODE overrides it when set
ConstraintsMode(epMode, transportMode, force, default) ==
    LET forceMode == IF force # "" THEN force ELSE default
    IN  IF forceMode # "" THEN forceMode
        ELSE IF epMode # "none" THEN epMode ELSE transportMode

ModeInputs ==
    [llm     : {"none", "walking", "driving", "cycling", "transit"},
     default : {""} \cup MapboxProfiles,
     force   : {""} \cup MapboxProfiles,
     orch    : Orchestrators]

ModeInit ==
    /\ CandIdle
    /\ PipeIdle
    /\ fnPc = "call"
    /\ fnOp = "transport_mode"
    /\ fnIn \in ModeInputs
    /\ fnOut = <<>>
    /\ fnSelf = <<>>

\* stage 3: create_search_zone(..., transport_mode=transport_mode)
ZoneProfile ==
    /\ fnPc = "call"
    /\ fnOp = "transport_mode"
    /\ LET epMode == ExtractedMode(fnIn.llm, fnIn.default)
           mode   == RequestMode(epMode, fnIn.default)
       IN  fnOut' = [transport_mode |-> mode,
                     zone           |-> GeocoderMbProfile(fnIn.force, mode)]
    /\ fnPc' = "done"
    /\ UNCHANGED <<fnOp, fnIn, fnSelf, cgVars, pipeVars>>

\* stage 5: build_route(origin, destination, candidate, constraints)
LegsProfile ==
    /\ fnPc = "done"
    /\ fnOp = "transport_mode"
    /\ LET epMode == ExtractedMode(fnIn.llm, fnIn.default)
           mode   == ConstraintsMode(epMode, fnOut.transport_mode,
                                     fnIn.force, fnIn.default)
       IN  fnOut' = [transport_mode |-> fnOut.transport_mode,
                     zone           |-> fnOut.zone,
                     legs           |-> RouteBuilderMbProfile(mode)]
    /\ fnPc' = "built"
    /\ UNCHANGED <<fnOp, fnIn, fnSelf, cgVars, pipeVars>>

ModeNext ==
    \/ ZoneProfile
    \/ LegsProfile

SpecMode == ModeInit /\ [][ModeNext]_vars

-----------------------------------------------------------------------------
(* Claims about the request pipeline (checked under Spec) *)

\* position in `candidates` of the candidate a route was built from
CandIndex(r) == CHOOSE k \in 1..Len(candidates) : candidates[k] = r.wps

Succeeded(status) == {i \in DOMAIN status : status[i] = "ok"}
Failed(status) == {i \in DOMAIN status : status[i] = "failed"}

\* every task of the batch began exactly once
EachStartedOnce(started, n) ==
    /\ Len(started) = n
    /\ {started[k] : k \in 1..Len(started)} = 1..n

\* indices are handed out one after another in list order
InListOrder(started) == \A k \in 1..Len(started) : started[k] = k

\* C1: when no candidate's build_route produced a route and
\* build_direct_route failed as well, the request fails; it never returns a
\* successful response (with an empty route list).
C1_NoRouteFails ==
    fallback = "failed" => pc # "done"

\* C2: a cache get or set that raises never fails the request.
C2_CacheFailureNeverFails ==
    ~(pc = "failed" /\ err = "cache")

\* C3: a failed parameter extraction fails the request only when the request
\* carries no explicit origin and destination coordinates.
C3_ExtractionFailureNeedsNoCoords ==
    (pc = "failed" /\ err = "extraction") => ~explicitCoords

\* C4: in a build batch and in a scoring batch no task is ever cancelled or
\* skipped because a sibling raised: once the batch is over every candidate
\* (route) was attempted exactly once and finished, and the routes (scores)
\* carried on are exactly those of the tasks that succeeded.
C4_BatchRunsToCompletion ==
    /\ \A i \in DOMAIN bStatus : bStatus[i] \in {"pending", "running", "ok", "failed"}
    /\ \A i \in DOMAIN sStatus : sStatus[i] \in {"pending", "running", "ok", "failed"}
    /\ (bStatus # <<>> /\ pc # "build") =>
          /\ EachStartedOnce(bStarted, Len(candidates))
          /\ Succeeded(bStatus) \cup Failed(bStatus) = 1..Len(candidates)
          /\ Len(built) = Cardinality(Succeeded(bStatus))
          /\ {built[k].wps : k \in 1..Len(built)}
                 = {candidates[i] : i \in Succeeded(bStatus)}
          /\ (fallback = "none" => routes = built)
    /\ (orch = "parallel" /\ pc = "done") =>
          /\ EachStartedOnce(sStarted, Len(routes))
          /\ Succeeded(sStatus) \cup Failed(sStatus) = 1..Len(routes)
          /\ Len(scored) = Cardinality(Succeeded(sStatus))
          /\ {scored[k].route : k \in 1..Len(scored)}
                 = {routes[i] : i \in Succeeded(sStatus)}

\* C4 witness: a pooled build batch whose first task raised while later ones
\* delivered, followed by a pooled scoring batch whose first task raised
C4_Witness ==
    /\ pc = "done"
    /\ orch = "parallel"
    /\ cfg.rb_max_workers > 1
    /\ cfg.scorer_max_workers > 1
    /\ Len(candidates) = 3
    /\ bStatus[1] = "failed"
    /\ bStatus[2] = "ok"
    /\ bStatus[3] = "ok"
    /\ sStatus[1] = "failed"
    /\ sStatus[2] = "ok"

C6_ParallelScoresAsOneBatch ==
    (/\ pc = "done"
     /\ orch = "parallel"
     /\ Succeeded(sStatus) = DOMAIN sStatus) =>
        LET batch == ScoreRoutes(routes,
                                 [i \in 1..Len(routes) |-> SimilarityOf(routes[i])])
        IN  {scored[k] : k \in 1..Len(scored)} = {batch[k] : k \in 1..Len(batch)}

\* C7: routes of equal overall score appear in the response in their
\* original candidate order, whatever order the workers finished in.
C7_TiesInCandidateOrder ==
    pc = "done" =>
        \A i, j \in 1..Len(response) :
            (i < j /\ response[i].overall = response[j].overall)
                => CandIndex(response[i].route) < CandIndex(response[j].route)

\* C25: no waypoint within the near threshold of the origin or of the
\* destination is part of a candidate or of a route of the response, whether
\* the waypoint list came from the provider or from the cache, in both
\* orchestrators.
C25_NoNearWaypoint ==
    /\ \A i \in 1..Len(candidates) :
          \A k \in 1..Len(candidates[i]) : ~candidates[i][k].near
    /\ \A i \in 1..Len(response) :
          \A k \in 1..Len(response[i].route.wps) : ~response[i].route.wps[k].near

\* the search found nothing for a zone without ring, and the only candidate
\* is the empty subset
EmptyZoneSkipsSearch ==
    /\ waypoints = <<>>
    /\ candidates \in {<<>>, << <<>> >>}

\* the direct route is among the routes of this request
DirectRouteBuilt == \E i \in 1..Len(routes) : routes[i].wps = <<>>

\* C27: with an empty intersection ring the request is not an error: the
\* waypoint search gives the empty list, the only candidate is the empty
\* subset, and once the directions call for the direct route has succeeded
\* the request ends with a response that contains the direct route.
C27_EmptyZoneGivesDirectRoute ==
    zone = "empty" =>
        /\ EmptyZoneSkipsSearch
        /\ (DirectRouteBuilt /\ pc \in {"done", "failed"}) =>
               /\ pc = "done"
               /\ \E i \in 1..Len(response) : response[i].route.wps = <<>>

\* C28: a request that finds the llm_extract_v1 entry an earlier request
\* with the same prompt wrote, whichever orchestrator wrote it, goes on with
\* the parameters of that entry: unpacking the entry never fails the request.
C28_CachedExtractionUsable ==
    /\ ~(pc = "failed" /\ err = "cached_llm_missing_field")
    /\ (store.llm # "none" /\ reqNo > 1 /\ pc \notin {"llm_get", "failed"}) =>
           ep \in {"cached", "extracted"}

\* the waypoints stage of a request that finds a waypoints_v2 entry
WaypointsEntryFound ==
    pc = "waypoints" /\ store.wps.present /\ pc' = "prepare"

\* the routes stage of a parallel request that finds the routes_v3 entry of
\* its key
RoutesEntryFound ==
    /\ pc = "prepare"
    /\ orch = "parallel"
    /\ store.routes.present
    /\ store.routes.key = RoutesKey(waypoints', candidates')
    /\ pc' # "failed"

\* C29: once a stage result is stored under a key, the next request with
\* that key takes the stored result and does not run the stage again (no
\* search, no build batch), also when the stored result is an empty list.
C29_StoredResultServed ==
    [][/\ WaypointsEntryFound =>
              /\ waypoints' = NearFilter(store.wps.val, orch)
              /\ UNCHANGED store
       /\ RoutesEntryFound =>
              /\ pc' = "score"
              /\ routes' = store.routes.val]_vars

-----------------------------------------------------------------------------
(* Claims about the route builder (checked under SpecBuild) *)

RECURSIVE SumOf(_)
SumOf(xs) == IF xs = <<>> THEN 0 ELSE Head(xs) + SumOf(Tail(xs))

\* len(segments) == len(waypoints) + 1 and the totals are the segment sums
RouteIntegrity(r) ==
    /\ Len(r.segments) = Len(r.wps) + 1
    /\ r.total_distance = SumOf([i \in 1..Len(r.segments) |-> r.segments[i].dist])
    /\ r.total_duration = SumOf([i \in 1..Len(r.segments) |-> r.segments[i].dur])

InTripOrder(wps, trip) ==
    IF trip = <<>> THEN wps ELSE [i \in 1..Len(wps) |-> wps[trip[i]]]

\* C22: build_route sends the trip-optimization request exactly when there
\* are at least 2 waypoints and at most 12 coordinates, and the route then
\* visits the waypoints in the order the answer gives; otherwise it visits
\* them in the given order. There is one directions request, hence one
\* segment, per consecutive pair of origin, waypoints, destination.
C22_VisitsInOptimizedOrder ==
    (fnOp = "build_route" /\ fnPc = "done" /\ ~fnOut.raised) =>
        LET route == fnOut.routes[1]
        IN  /\ TripRequested(fnIn.wps)
                  <=> (Len(fnIn.wps) >= 2 /\ 2 + Len(fnIn.wps) <= 12)
            /\ route.wps = IF TripRequested(fnIn.wps)
                           THEN InTripOrder(fnIn.wps, fnIn.trip)
                           ELSE fnIn.wps
            /\ Len(route.segments) = Len(fnIn.wps) + 1

-----------------------------------------------------------------------------
(* Claims about the waypoint search (checked under SpecSearch) *)

-----------------------------------------------------------------------------
(* Claims about the scorer (checked under SpecScore) *)

ScoreRoutesReturned ==
    fnOp = "score_routes" /\ fnPc \in {"done", "ranked"} /\ ~fnOut.raised

NonIncreasingByOverall(ss) ==
    \A i, j \in 1..Len(ss) : i < j => ss[i].overall >= ss[j].overall

C14_ReferenceDurationScoresHundred ==
    /\ (fnOp = "score_routes" /\ fnPc = "done" /\ ~fnOut.raised) =>
          \A i \in 1..Len(fnOut.scores) :
              fnOut.scores[i].route.dur = MinDuration(BatchRoutes(fnIn.batch))
                  => fnOut.scores[i].eff = Hundred
    /\ (fnOp = "_calculate_efficiency_score" /\ fnPc = "done" /\ fnIn.d = fnIn.m)
          => fnOut = Hundred

\* 100 - 10 * ((d - m) / max(1, m) + 1)^3 clamped to [0,100], in thousandths
ClaimedEfficiency(d, m) ==
    LET den == Max(1, m)
        num == (d - m) + den
    IN  Max(0, Min(Hundred, Hundred - (10000 * (num * num * num)) \div (den * den * den)))

\* C15: for all integers d >= 0 and m >= 0 the efficiency score is
\* 100 - 10 * ((d - m) / max(1, m) + 1)^3 clamped to [0,100]; a route of
\* duration 2m (m >= 1) scores exactly 20.
C15_EfficiencyFormula ==
    (fnOp = "_calculate_efficiency_score" /\ fnPc = "done") =>
        /\ fnOut = ClaimedEfficiency(fnIn.d, fnIn.m)
        /\ (fnIn.m >= 1 /\ fnIn.d = 2 * fnIn.m) => fnOut = 20000

\* C16: score_routes accepts an externally supplied baseline duration and
\* computes every efficiency score against it, so a lone route that takes
\* twice the baseline does not score 100.
C16_BaselineAccepted ==
    (fnOp = "score_routes" /\ fnPc = "done" /\ fnIn.baseline.given) =>
        /\ ~fnOut.raised
        /\ Len(fnOut.scores) = Len(fnIn.batch)
        /\ \A i \in 1..Len(fnOut.scores) :
              fnOut.scores[i].eff =
                  ClaimedEfficiency(fnOut.scores[i].route.dur, fnIn.baseline.value)

InScoreRange(x) == 0 <= x /\ x <= Hundred

\* C17: with the default weights the visual, efficiency and overall score
\* of every RouteScore score_routes returns, and of every score breakdown
\* of a response, lie in [0,100]; so does the preference score whenever it
\* is present, that is, whenever it is not the 'not applicable' marker.
C17_ScoresInRange ==
    /\ ScoreRoutesReturned =>
          \A i \in 1..Len(fnOut.scores) :
              /\ InScoreRange(fnOut.scores[i].clip)
              /\ InScoreRange(fnOut.scores[i].eff)
              /\ InScoreRange(fnOut.scores[i].overall)
              /\ fnOut.scores[i].pref # NotApplicable
                    => InScoreRange(fnOut.scores[i].pref)
    /\ (fnPc = "done" /\ fnOp \in {"_calculate_efficiency_score", "_combine_scores"})
          => InScoreRange(fnOut)
    /\ (fnPc = "done" /\ fnOp = "_calculate_preference_match_score"
           /\ fnOut # NotApplicable)
          => InScoreRange(fnOut)

\* a response lists a route three times as long as the fastest of its
\* batch, whose cubic penalty is below zero, with a preference score
C17_Witness ==
    /\ fnOp = "score_routes"
    /\ fnPc = "ranked"
    /\ \E i \in 1..Len(fnOut.scores) :
          /\ fnOut.scores[i].route.dur = 30
          /\ MinDuration(BatchRoutes(fnIn.batch)) = 10
          /\ fnOut.scores[i].eff = 0
          /\ fnOut.scores[i].pref > 0

\* C18: the preference score of a route without waypoints is the 'not
\* applicable' marker, never 0; with n >= 1 waypoints it is
\* min(100, mean(relevance) * (1 + 0.10 * (n - 1))): three waypoints
\* averaging 50 score 60 and one waypoint of relevance 60 scores 60.
C18_PreferenceScore ==
    /\ (fnOp = "_calculate_preference_match_score" /\ fnPc = "done") =>
          LET n     == Len(fnIn.rels)
              total == SumOf(fnIn.rels)
          IN  /\ n = 0 => (fnOut = NotApplicable /\ fnOut # 0)
              /\ (n >= 1 /\ total * (10 + (n - 1)) >= 100 * 10 * n)
                    => fnOut = Hundred
              /\ (n >= 1 /\ total * (10 + (n - 1)) < 100 * 10 * n)
                    => fnOut * 10 * n = 1000 * total * (10 + (n - 1))
              /\ fnIn.rels \in {<<45, 50, 55>>, <<50, 50, 50>>, <<60>>}
                    => fnOut = 60000
    /\ ScoreRoutesReturned =>
          \A i \in 1..Len(fnOut.scores) :
              fnOut.scores[i].route.wps = <<>>
                  <=> fnOut.scores[i].pref = NotApplicable

\* three waypoints averaging 50 were scored 60
C18_Witness ==
    /\ fnOp = "_calculate_preference_match_score"
    /\ fnPc = "done"
    /\ fnIn.rels = <<45, 50, 55>>
    /\ fnOut = 60000

\* x is the quotient num / den cut to a whole number of thousandths
IsQuotient(x, num, den) == den * x <= num /\ num < den * (x + 1)

ClaimedOverall(clip, eff, pref) ==
    IF pref = NotApplicable
    THEN [num |-> ClipWeight * clip + DurationWeight * eff,
          den |-> ClipWeight + DurationWeight]
    ELSE [num |-> ClipWeight * clip + DurationWeight * eff
                      + WaypointRelevanceWeight * pref,
          den |-> ClipWeight + DurationWeight + WaypointRelevanceWeight]

\* C19: when the preference score is 'not applicable' the overall score is
\* (wv * visual + we * efficiency) / (wv + we); otherwise it is
\* wv * visual + we * efficiency + wp * preference, with the default
\* weights 0.4, 0.3 and 0.3.
C19_OverallScore ==
    /\ (fnOp = "_combine_scores" /\ fnPc = "done") =>
          LET c == ClaimedOverall(fnIn.clip, fnIn.eff, fnIn.pref)
          IN  IsQuotient(fnOut, c.num, c.den)
    /\ ScoreRoutesReturned =>
          \A i \in 1..Len(fnOut.scores) :
              LET sc == fnOut.scores[i]
                  c  == ClaimedOverall(sc.clip, sc.eff, sc.pref)
              IN  IsQuotient(sc.overall, c.num, c.den)

\* a visual score of 100 and an efficiency of 50 without a preference score
\* were combined to 550/7 = 78.571
C19_Witness ==
    /\ fnOp = "_combine_scores"
    /\ fnPc = "done"
    /\ fnIn = [clip |-> 100000, eff |-> 50000, pref |-> NotApplicable]
    /\ fnOut = 78571

-----------------------------------------------------------------------------
(* Claims about the search zone (checked under SpecZone) *)

SplitOrigins == [i \in 1..Len(fnOut.splits) |-> fnOut.splits[i].o]

\* C20: with budget = base + extra, create_search_zone pairs every origin
\* split o with the destination split budget - o. When base > 60 the origin
\* splits are exactly min(20, budget + 1) evenly spaced integers from 0 to
\* budget: non-decreasing, the first 0 and the last budget. Otherwise they
\* are the multiples of 5 in [0, budget]: 0, 5, ..., 40, nine values, for
\* base = 40 and extra = 0.
C20_SearchZoneSplits ==
    (fnOp = "create_search_zone" /\ fnPc = "done") =>
        LET budget == fnIn.base + fnIn.extra
            os     == SplitOrigins
            n      == Len(os)
        IN  /\ ~fnOut.raised
            /\ \A i \in 1..n : fnOut.splits[i].d = budget - os[i]
            /\ fnIn.base > 60 =>
                  /\ n = Min(20, budget + 1)
                  /\ os[1] = 0
                  /\ os[n] = budget
                  /\ \A i \in 1..(n - 1) : os[i] <= os[i + 1]
                  /\ \A i \in 1..n :
                        /\ 2 * (os[i] * (n - 1) - (i - 1) * budget) <= n - 1
                        /\ 2 * ((i - 1) * budget - os[i] * (n - 1)) <= n - 1
            /\ fnIn.base <= 60 =>
                  /\ {os[i] : i \in 1..n} = {k \in 0..budget : k % 5 = 0}
                  /\ \A i \in 1..(n - 1) : os[i] < os[i + 1]
            /\ (fnIn.base = 40 /\ fnIn.extra = 0) =>
                  os = <<0, 5, 10, 15, 20, 25, 30, 35, 40>>

\* a trip of more than an hour was split into twenty pairs
C20_Witness ==
    /\ fnOp = "create_search_zone"
    /\ fnPc = "done"
    /\ fnIn.base > 60
    /\ Len(fnOut.splits) = 20
    /\ fnOut.splits[2].o > 0
    /\ fnOut.splits[2].d = fnIn.base + fnIn.extra - fnOut.splits[2].o

C23_IsochroneCache ==
    (fnOp \in {"create_isochrone", "create_search_zone"}) =>
        LET rq == fnSelf.requests
        IN  /\ \A i \in 1..Len(rq) :
                  /\ rq[i].minutes >= 0
                  /\ rq[i].minutes <= IsoMaxMinutes
                  /\ rq[i].key[2] = rq[i].minutes
            /\ \A i, j \in 1..Len(rq) :
                  (i < j /\ rq[i].ok) => rq[j].key # rq[i].key
            /\ fnSelf.iso_cache = {rq[i].key : i \in {k \in 1..Len(rq) : rq[k].ok}}

\* a second call whose center and minutes (61, clamped to the cap) give a
\* key already stored was served without a request
C23_Witness ==
    /\ fnOp = "create_isochrone"
    /\ fnPc = "done"
    /\ fnSelf.calls = 2
    /\ Len(fnSelf.requests) = 1
    /\ fnSelf.requests[1].ok
    /\ fnSelf.requests[1].minutes = IsoMaxMinutes
    /\ ~fnOut.raised
    /\ fnIn.center = 8
    /\ fnSelf.requests[1].key[1] = 1

\* C24: create_search_zone never asks the isochrone provider for
\* minutes <= 0, whatever the budget and the split schedule: a side of a
\* split with minutes <= 0 becomes a point buffer around the center.
C24_NoRequestForZeroMinutes ==
    (fnOp = "create_search_zone") =>
        \A i \in 1..Len(fnSelf.requests) : fnSelf.requests[i].minutes > 0

-----------------------------------------------------------------------------
(* Claims about the cache keys (checked under SpecKey) *)

\* C26: two orchestrator instances in separate processes that are given
\* the same origin, destination, waypoints, candidates and constraints
\* compute the same routes cache key, so the second finds what the first
\* stored.
C26_SameRoutesKey ==
    (fnOp = "routes_key" /\ fnPc = "looked_up") =>
        /\ fnOut.asked = fnOut.stored
        /\ fnOut.hit

-----------------------------------------------------------------------------
(* Claims about the travel mode (checked under SpecMode) *)

\* C30: within one request the profile used for the base travel time and
\* the isochrones equals the profile used for the route legs, whatever the
\* extracted transport_mode and the DEFAULT_TRANSPORT_MODE and
\* FORCE_TRANSPORT_MODE settings are.
C30_OneModePerRequest ==
    (fnOp = "transport_mode" /\ fnPc = "built") => fnOut.zone = fnOut.legs

-----------------------------------------------------------------------------
(* Claims about candidate generation (checked under SpecCand) *)

\* the list _make_candidates builds before the ceiling is applied
Untruncated == MakeCandidates(cgOrch, cgWps, [cgCfg EXCEPT !.rb_max_candidates = 0])

\* the top-K window the candidates are drawn from
Window ==
    IF cgOrch = "parallel" THEN OrderedParallel(cgWps, cgCfg)
                           ELSE OrderedSync(cgWps, cgCfg)

\* C8: the candidate list never has more entries than the configured hard
\* ceiling RB_MAX_CANDIDATES (when one is configured, i.e. > 0), in both
\* orchestrators, and what is kept is the head of the list in its order.
C8_CandidateCeiling ==
    (cgPc = "done" /\ cgCfg.rb_max_candidates > 0)
        => /\ Len(cgOut) <= cgCfg.rb_max_candidates
           /\ cgOut = SubSeq(Untruncated, 1, Len(cgOut))

ClaimedLegacyCandidates(window, knobs) ==
    LET n == Len(window)
    IN  << <<>> >>
        \o [i \in 1..Min(Max(knobs.route_max_single, 0), n) |-> <<window[i]>>]
        \o Pick(window, UpTo(PairIdx(1, n, n), knobs.route_max_pairs))
        \o Pick(window, UpTo(Combinations(1, n, 3), knobs.route_max_triples))

\* C10: in legacy mode the candidate list before the ceiling is the empty
\* subset, min(maxSingles, n) singles in rank order, then the first maxPairs
\* ascending index pairs (i,j), i<j, of the whole top-K window, then the
\* first maxTriples ascending triples of the whole window.
C10_LegacyWholeWindow ==
    (/\ cgPc = "done"
     /\ cgCfg.rb_max_candidates = 0
     /\ (cgOrch = "sync" \/ AnyLegacy(cgCfg)))
        => cgOut = ClaimedLegacyCandidates(Window, cgCfg)

=============================================================================
